---- MODULE Spec2Model ----
(***************************************************************************)
(* A model of flat_map::FlatMap (src/src/flat_map.rs): a map kept as one   *)
(* Vec<(K, V)> sorted by key, searched by a pluggable Lookup strategy.     *)
(*                                                                         *)
(* `v` is the backing vector of the map the operations are called on and   *)
(* `l` the strategy it was built with.  `entry` is the Entry handle that   *)
(* borrows `v` between entry(k) and the call that consumes it.  `it` is the *)
(* iterator a caller holds: the vector it walks and its two cursors.        *)
(* `last`                                                                  *)
(* observes the most recent call: its name, arguments and return value,    *)
(* the vector before it, the second map of the call (the argument of       *)
(* append before and after, the map split_off returns), the number of      *)
(* Lookup::lookup calls it made and the number of times a producer closure *)
(* was invoked.  The caller looks at one result at a time: a call is made   *)
(* only after the result of the one before has been dropped (a returned    *)
(* reference borrows the map until then).                                  *)
(*                                                                         *)
(* Indices are 0-based as in the source; element i of a Vec s is s[i+1].   *)
(***************************************************************************)
EXTENDS Integers, Sequences, FiniteSets, TLC

VARIABLES v, l, entry, it, last

vars == <<v, l, entry, it, last>>

\* ---- bounds --------------------------------------------------------------
MaxKey == 3
MaxVal == 2
MaxInput == 2

Keys == 1..MaxKey
Vals == 1..MaxVal
Pairs == Keys \X Vals
Strategies == {"BinarySearch", "LinearFront", "LinearBack"}

\* ---- Option / Result / Ordering -------------------------------------------
None == <<>>
Some(x) == <<x>>
Ok(i) == [ok |-> TRUE, idx |-> i]
Err(i) == [ok |-> FALSE, idx |-> i]

\* Ord::cmp on keys
cmp(a, b) == IF a < b THEN "Less" ELSE IF a = b THEN "Equal" ELSE "Greater"

\* ---- Vec primitives (std) -------------------------------------------------
\* The bounds checks of Vec: insert and split_off accept index <= len,
\* indexing and remove need index < len; otherwise they panic
Vec_insert_in_bounds(s, i) == i <= Len(s)
Vec_index_in_bounds(s, i) == i < Len(s)
Vec_remove_in_bounds(s, i) == i < Len(s)
Vec_split_off_in_bounds(s, at) == at <= Len(s)

\* Vec::insert placing the element one slot too far
Vec_insert_after(s, i, e) ==
    IF i < Len(s) THEN SubSeq(s, 1, i + 1) \o <<e>> \o SubSeq(s, i + 2, Len(s))
    ELSE s \o <<e>>

\* Vec::insert(index, element): shifts the elements after index to the right
Vec_insert(s, i, e) == SubSeq(s, 1, i) \o <<e>> \o SubSeq(s, i + 1, Len(s))
\* Vec::remove(index): shifts the elements after index to the left
Vec_remove(s, i) == SubSeq(s, 1, i) \o SubSeq(s, i + 2, Len(s))
\* Vec::split_off(at): self keeps [0, at), the result holds [at, len)
Vec_split_off(s, at) == [keep |-> SubSeq(s, 1, at), tail |-> SubSeq(s, at + 1, Len(s))]

\* ---- Lookup strategies ----------------------------------------------------
\* slice::binary_search_by: the halving loop (base, size) of the standard library
RECURSIVE bsearch_loop(_, _, _, _)
bsearch_loop(slice, q, base, size) ==
    IF size > 1
    THEN LET half == size \div 2
             mid == base + half
             c == cmp(slice[mid + 1][1], q)
         IN bsearch_loop(slice, q, IF c = "Greater" THEN base ELSE mid, size - half)
    ELSE LET c == cmp(slice[base + 1][1], q)
         IN IF c = "Equal" THEN Ok(base)
            ELSE Err(base + (IF c = "Less" THEN 1 ELSE 0))

BinarySearch_lookup(slice, q) ==
    IF Len(slice) = 0 THEN Err(0) ELSE bsearch_loop(slice, q, 0, Len(slice))

\* for (index, k) in slice.iter().enumerate()
RECURSIVE front_loop(_, _, _)
front_loop(slice, q, index) ==
    IF index >= Len(slice) THEN Err(Len(slice))
    ELSE LET c == cmp(slice[index + 1][1], q)
         IN IF c = "Less" THEN front_loop(slice, q, index + 1)
            ELSE IF c = "Equal" THEN Ok(index)
            ELSE Err(index)

\* LinearFront::lookup answering one past the end when every key is smaller
LinearFront_lookup_past_end(slice, q) ==
    LET r == front_loop(slice, q, 0)
    IN IF ~r.ok /\ r.idx = Len(slice) THEN Err(Len(slice) + 1) ELSE r

LinearFront_lookup(slice, q) == front_loop(slice, q, 0)

\* for (index, k) in slice.iter().enumerate().rev(); `n` is index + 1
RECURSIVE back_loop(_, _, _)
back_loop(slice, q, n) ==
    IF n = 0 THEN Err(0)
    ELSE LET index == n - 1
             c == cmp(slice[index + 1][1], q)
         IN IF c = "Less" THEN Err(index + 1)
            ELSE IF c = "Equal" THEN Ok(index)
            ELSE back_loop(slice, q, index)

\* LinearBack::lookup returning Err(index) where the scan meets a smaller key
LinearBack_lookup_at_smaller(slice, q) ==
    LET r == back_loop(slice, q, Len(slice))
    IN IF r.ok \/ r.idx = 0 THEN r ELSE Err(r.idx - 1)

LinearBack_lookup(slice, q) == back_loop(slice, q, Len(slice))

\* self.l.lookup(slice, q): static dispatch on the strategy type L
lookup(L, slice, q) ==
    CASE L = "BinarySearch" -> BinarySearch_lookup(slice, q)
      [] L = "LinearFront" -> LinearFront_lookup(slice, q)
      [] L = "LinearBack" -> LinearBack_lookup(slice, q)

\* ---- FlatMap operations (pure part) ---------------------------------------
\* Each returns the new vector(s), the return value, and `probes`: how many
\* times the operation called Lookup::lookup.

\* FromIterator::from_iter: collect, stable sort_by key, dedup_by key.
\* sort_by is a stable sort: an insertion sort that never moves an element
\* past an equal key.
RECURSIVE sort_insert(_, _)
sort_insert(sorted, e) ==
    IF sorted = <<>> THEN <<e>>
    ELSE LET n == Len(sorted)
         IN IF cmp(sorted[n][1], e[1]) = "Greater"
            THEN sort_insert(SubSeq(sorted, 1, n - 1), e) \o <<sorted[n]>>
            ELSE sorted \o <<e>>

RECURSIVE sort_by(_)
sort_by(s) ==
    IF s = <<>> THEN <<>>
    ELSE sort_insert(sort_by(SubSeq(s, 1, Len(s) - 1)), s[Len(s)])

\* Vec::dedup_by keeping the last element of a run of equal keys
RECURSIVE dedup_by_keep_last(_)
dedup_by_keep_last(s) ==
    IF Len(s) <= 1 THEN s
    ELSE LET d == dedup_by_keep_last(SubSeq(s, 1, Len(s) - 1))
             e == s[Len(s)]
         IN IF e[1] = d[Len(d)][1] THEN SubSeq(d, 1, Len(d) - 1) \o <<e>> ELSE d \o <<e>>

\* Vec::dedup_by(|kv1, kv2| kv1.0 == kv2.0): an element is dropped when its
\* key equals the key of the element retained just before it.
RECURSIVE dedup_by(_)
dedup_by(s) ==
    IF Len(s) <= 1 THEN s
    ELSE LET d == dedup_by(SubSeq(s, 1, Len(s) - 1))
             e == s[Len(s)]
         IN IF e[1] = d[Len(d)][1] THEN d ELSE d \o <<e>>

from_iter(iter) == dedup_by(sort_by(iter))

\* FlatMap::insert pushing a new pair at the end instead of at the index found
insert_push(m, L, key, val) ==
    LET r == lookup(L, m, key)
    IN IF r.ok
       THEN [v |-> [m EXCEPT ![r.idx + 1] = <<m[r.idx + 1][1], val>>],
             ret |-> Some(m[r.idx + 1][2]), probes |-> 1]
       ELSE [v |-> m \o <<<<key, val>>>>, ret |-> None, probes |-> 1]

\* FlatMap::insert without the swap: the old value stays, the new one comes back
insert_no_swap(m, L, key, val) ==
    LET r == lookup(L, m, key)
    IN IF r.ok
       THEN [v |-> m, ret |-> Some(val), probes |-> 1]
       ELSE [v |-> Vec_insert(m, r.idx, <<key, val>>), ret |-> None, probes |-> 1]

\* FlatMap::insert
insert(m, L, key, val) ==
    LET r == lookup(L, m, key)
    IN IF r.ok
       THEN [v |-> [m EXCEPT ![r.idx + 1] = <<m[r.idx + 1][1], val>>],
             ret |-> Some(m[r.idx + 1][2]), probes |-> 1]
       ELSE [v |-> Vec_insert(m, r.idx, <<key, val>>), ret |-> None, probes |-> 1]

\* FlatMap::append: for (k, v) in other.v.drain(..) { self.insert(k, v); }
RECURSIVE append_loop(_, _, _, _)
append_loop(m, L, o, n) ==
    IF n = 0 THEN [v |-> m, probes |-> 0]
    ELSE LET a == append_loop(m, L, o, n - 1)
             r == insert(a.v, L, o[n][1], o[n][2])
         IN [v |-> r.v, probes |-> a.probes + r.probes]

\* FlatMap::append keeping self's value when both maps hold a key
RECURSIVE append_keep_loop(_, _, _, _)
append_keep_loop(m, L, o, n) ==
    IF n = 0 THEN m
    ELSE LET a == append_keep_loop(m, L, o, n - 1)
         IN IF lookup(L, a, o[n][1]).ok THEN a ELSE insert(a, L, o[n][1], o[n][2]).v

append_keep_self(m, L, o) ==
    [v |-> append_keep_loop(m, L, o, Len(o)), other |-> <<>>, probes |-> Len(o)]

append(m, L, o) ==
    LET a == append_loop(m, L, o, Len(o))
    IN [v |-> a.v, other |-> <<>>, probes |-> a.probes]

\* Extend::extend: for (k, v) in iter { self.insert(k, v); }
RECURSIVE extend(_, _, _)
extend(m, L, iter) ==
    IF iter = <<>> THEN m
    ELSE insert(extend(m, L, SubSeq(iter, 1, Len(iter) - 1)), L,
                iter[Len(iter)][1], iter[Len(iter)][2]).v

\* FlatMap::entry
entry_of(m, L, key) ==
    LET r == lookup(L, m, key)
    IN IF r.ok
       THEN [e |-> [kind |-> "Occupied", key |-> 0, index |-> r.idx], probes |-> 1]
       ELSE [e |-> [kind |-> "Vacant", key |-> key, index |-> r.idx], probes |-> 1]

\* FlatMap::split_off cloning the tail without truncating self
split_off_no_truncate(m, L, key) ==
    LET r == lookup(L, m, key)
    IN IF r.ok
       THEN [v |-> m, ret |-> Vec_split_off(m, r.idx).tail, probes |-> 1]
       ELSE [v |-> m, ret |-> <<>>, probes |-> 1]

\* FlatMap::split_off
split_off(m, L, key) ==
    LET r == lookup(L, m, key)
    IN IF r.ok
       THEN [v |-> Vec_split_off(m, r.idx).keep, ret |-> Vec_split_off(m, r.idx).tail,
             probes |-> 1]
       ELSE [v |-> m, ret |-> <<>>, probes |-> 1]

\* FlatMap::get reading the slot after the index found (1-based indexing slip)
get_next_slot(m, L, q) ==
    LET r == lookup(L, m, q)
    IN IF r.ok
       THEN Some(m[IF r.idx + 2 <= Len(m) THEN r.idx + 2 ELSE r.idx + 1][2])
       ELSE None

\* FlatMap::get
get(m, L, q) ==
    LET r == lookup(L, m, q)
    IN IF r.ok THEN Some(m[r.idx + 1][2]) ELSE None

\* FlatMap::contains_key: self.get(k).is_some()
contains_key(m, L, q) == get(m, L, q) # None

\* FlatMap::get_mut: the value slot the returned reference points at
\* (Some(index of the slot)), or None
get_mut(m, L, q) ==
    LET r == lookup(L, m, q)
    IN IF r.ok
       THEN (IF r.idx < Len(m) THEN Some(r.idx) ELSE None)
       ELSE None

\* FlatMap::remove treating the insertion point of an absent key as a hit
remove_at_insertion_point(m, L, q) ==
    LET r == lookup(L, m, q)
    IN IF r.ok \/ r.idx < Len(m)
       THEN [v |-> Vec_remove(m, r.idx), ret |-> Some(m[r.idx + 1][2]), probes |-> 1]
       ELSE [v |-> m, ret |-> None, probes |-> 1]

\* FlatMap::remove using Vec::swap_remove: the last pair fills the hole
remove_swap(m, L, q) ==
    LET r == lookup(L, m, q)
    IN IF r.ok
       THEN [v |-> IF r.idx + 1 = Len(m) THEN SubSeq(m, 1, Len(m) - 1)
                   ELSE SubSeq([m EXCEPT ![r.idx + 1] = m[Len(m)]], 1, Len(m) - 1),
             ret |-> Some(m[r.idx + 1][2]), probes |-> 1]
       ELSE [v |-> m, ret |-> None, probes |-> 1]

\* FlatMap::remove
remove(m, L, q) ==
    LET r == lookup(L, m, q)
    IN IF r.ok
       THEN [v |-> Vec_remove(m, r.idx), ret |-> Some(m[r.idx + 1][2]), probes |-> 1]
       ELSE [v |-> m, ret |-> None, probes |-> 1]

\* Index::index with unwrap_or on a default instead of expect
index_or_default(m, L, key) ==
    LET r == get(m, L, key)
    IN IF r = None THEN [ret |-> Some(1), panic |-> "none"]
       ELSE [ret |-> r, panic |-> "none"]

\* Index::index: self.get(key).expect("no entry found for key")
index(m, L, key) ==
    LET r == get(m, L, key)
    IN IF r = None THEN [ret |-> None, panic |-> "no entry found for key"]
       ELSE [ret |-> r, panic |-> "none"]

\* A write through a view that hands out the key instead of the value
value_write_key(m, slot, x) == [m EXCEPT ![slot + 1] = <<x, m[slot + 1][2]>>]

\* *r = x through a reference bound by `&mut (_, ref mut v)`: only the value
\* of the pair in `slot` is reachable
value_write(m, slot, x) == [m EXCEPT ![slot + 1] = <<m[slot + 1][1], x>>]

\* PartialEq::eq: self.len() == other.len() && self.iter().zip(other).all(|(a, b)| a == b)
eq(a, b) ==
    /\ Len(a) = Len(b)
    /\ \A i \in 1..(IF Len(a) < Len(b) THEN Len(a) ELSE Len(b)) : a[i] = b[i]

\* Hash::hash: for elt in self { elt.hash(state) }; the elements the hasher
\* is fed, in order
hash(m) == [i \in 1..Len(m) |-> m[i]]

\* FlatMap::len / is_empty
len(m) == Len(m)
is_empty(m) == m = <<>>

\* FlatMap::clear that forgets to clear
clear_noop(m) == m

\* FlatMap::clear
clear(m) == <<>>

\* ---- Entry API ------------------------------------------------------------
NoEntry == [kind |-> "None", key |-> 0, index |-> 0]

\* OccupiedEntry::get_mut: the slot the returned reference points at
OccupiedEntry_get_mut(m, e) == [v |-> m, slot |-> e.index, probes |-> 0]

\* VacantEntry::insert pushing the pair at the end, ignoring the stored index
VacantEntry_insert_push(m, e, value) ==
    [v |-> m \o <<<<e.key, value>>>>, slot |-> Len(m), probes |-> 0]

\* VacantEntry::insert: the new vector and the slot the returned reference
\* points at
VacantEntry_insert(m, e, value) ==
    [v |-> Vec_insert(m, e.index, <<e.key, value>>), slot |-> e.index, probes |-> 0]

\* OccupiedEntry::key / get
OccupiedEntry_key(m, e) == m[e.index + 1][1]
OccupiedEntry_get(m, e) == m[e.index + 1][2]

\* OccupiedEntry::into_mut / get_mut: the slot the returned reference points at
OccupiedEntry_into_mut(m, e) == [v |-> m, slot |-> e.index, probes |-> 0]

\* OccupiedEntry::insert without the swap
OccupiedEntry_insert_no_swap(m, e, value) ==
    [v |-> m, ret |-> value, probes |-> 0]

\* OccupiedEntry::insert
OccupiedEntry_insert(m, e, value) ==
    [v |-> [m EXCEPT ![e.index + 1] = <<m[e.index + 1][1], value>>],
     ret |-> m[e.index + 1][2], probes |-> 0]

\* OccupiedEntry::remove
OccupiedEntry_remove(m, e) ==
    [v |-> Vec_remove(m, e.index), ret |-> m[e.index + 1][2], probes |-> 0]

\* Entry::or_insert
or_insert(m, e, default) ==
    IF e.kind = "Occupied" THEN OccupiedEntry_into_mut(m, e)
    ELSE VacantEntry_insert(m, e, default)

\* Entry::or_insert_with evaluating the producer before the match
or_insert_with_eager(m, e, produced) ==
    IF e.kind = "Occupied"
    THEN [r |-> [v |-> m, slot |-> e.index, probes |-> 0], calls |-> 1]
    ELSE [r |-> [v |-> Vec_insert(m, e.index, <<e.key, produced>>), slot |-> e.index,
                 probes |-> 0],
          calls |-> 1]

\* Entry::or_insert_with: `produced` is what default() returns if it is
\* called; `calls` counts its invocations
or_insert_with(m, e, produced) ==
    IF e.kind = "Occupied"
    THEN [r |-> OccupiedEntry_into_mut(m, e), calls |-> 0]
    ELSE [r |-> VacantEntry_insert(m, e, produced), calls |-> 1]

\* ---- Iterator family ------------------------------------------------------
IterKinds == {"Iter", "IterMut", "IntoIter", "Keys", "Values", "ValuesMut"}

\* No iterator is alive
NoIter == [kind |-> "None", s |-> <<>>, front |-> 0, back |-> 0]

\* self.iter() / iter_mut() / into_iter() / keys() / values() / values_mut():
\* a slice (or vec) iterator over the whole backing vector; `front` is the
\* index of the next item from the front, `back` one past the next item from
\* the back
new_iter(kind, m) == [kind |-> kind, s |-> m, front |-> 0, back |-> Len(m)]

\* slice::Iter::next / vec::IntoIter::next of the inner iterator
inner_next(c) ==
    IF c.front = c.back THEN [item |-> None, c |-> c]
    ELSE [item |-> Some(c.s[c.front + 1]), c |-> [c EXCEPT !.front = @ + 1]]

\* slice::Iter::next_back / vec::IntoIter::next_back of the inner iterator
inner_next_back(c) ==
    IF c.front = c.back THEN [item |-> None, c |-> c]
    ELSE [item |-> Some(c.s[c.back]), c |-> [c EXCEPT !.back = @ - 1]]

\* What each iterator makes of a pair of the vector: Iter, IterMut and
\* IntoIter yield (k, v), Keys maps `first`, Values and ValuesMut the value
project(kind, pair) ==
    CASE kind \in {"Iter", "IterMut", "IntoIter"} -> pair
      [] kind = "Keys" -> pair[1]
      [] kind \in {"Values", "ValuesMut"} -> pair[2]

\* Iterator::next of the six iterators
next(c) ==
    LET r == inner_next(c)
    IN [item |-> IF r.item = None THEN None ELSE Some(project(c.kind, r.item[1])),
        c |-> r.c]

\* next_back taking its item from the front (self.inner.next())
next_back_from_front(c) ==
    LET r == inner_next(c)
    IN [item |-> IF r.item = None THEN None ELSE Some(project(c.kind, r.item[1])),
        c |-> r.c]

\* DoubleEndedIterator::next_back of the six iterators
next_back(c) ==
    LET r == inner_next_back(c)
    IN [item |-> IF r.item = None THEN None ELSE Some(project(c.kind, r.item[1])),
        c |-> r.c]

\* size_hint reporting the length of the whole vector
size_hint_total(c) == Len(c.s)

\* Iterator::size_hint: (n, Some(n)) of the inner iterator, n the items left
size_hint(c) == c.back - c.front

\* for (i, (_, val)) in self.iter_mut().enumerate() { *val = w[i] }, and the
\* same through values_mut(): every item the iterator yields is written
RECURSIVE iter_mut_write(_, _, _)
iter_mut_write(c, m, w) ==
    LET r == next(c)
    IN IF r.item = None THEN m
       ELSE iter_mut_write(r.c, value_write(m, c.front, w[c.front + 1]), w)

\* ---- state machine --------------------------------------------------------
\* The observation of a call that has not happened yet
NoCall ==
    [op |-> "idle", k |-> 0, val |-> 0, pre |-> <<>>, preOther |-> <<>>,
     other |-> <<>>, ret |-> None, probes |-> 0, calls |-> 0, panic |-> "none",
     input |-> <<>>, fwd |-> <<>>, bwd |-> <<>>, ended |-> FALSE, revived |-> FALSE]

\* All input sequences of at most MaxInput pairs
Inputs == UNION {[1..n -> Pairs] : n \in 0..MaxInput}

\* The observation of a call `name` made in the current state
Call(name, k, val) == [NoCall EXCEPT !.op = name, !.k = k, !.val = val, !.pre = v]

\* FlatMap::new / with_lookup / default (any strategy, empty vector), or
\* from_iter (BinarySearch only)
Init ==
    /\ entry = NoEntry
    /\ it = NoIter
    /\ \/ /\ l \in Strategies
          /\ v = <<>>
          /\ last = NoCall
       \/ /\ l = "BinarySearch"
          /\ \E iter \in Inputs :
                /\ v = from_iter(iter)
                /\ last = [NoCall EXCEPT !.op = "from_iter", !.input = iter]

\* No Entry handle and no returned value or reference is alive: the map can
\* be called
Ready == entry = NoEntry /\ it = NoIter /\ last.op = "idle"

\* self.insert(k, x)
Insert(k, x) ==
    /\ Ready
    /\ LET r == insert(v, l, k, x)
       IN /\ v' = r.v
          /\ last' = [Call("insert", k, x) EXCEPT !.ret = r.ret, !.probes = r.probes]
    /\ UNCHANGED <<l, entry, it>>

\* self.remove(&q)
Remove(q) ==
    /\ Ready
    /\ LET r == remove(v, l, q)
       IN /\ v' = r.v
          /\ last' = [Call("remove", q, 0) EXCEPT !.ret = r.ret, !.probes = r.probes]
    /\ UNCHANGED <<l, entry, it>>

\* self.get(&q)
Get(q) ==
    /\ Ready
    /\ last' = [Call("get", q, 0) EXCEPT !.ret = get(v, l, q), !.probes = 1]
    /\ UNCHANGED <<v, l, entry, it>>

\* self.contains_key(&q)
ContainsKey(q) ==
    /\ Ready
    /\ last' = [Call("contains_key", q, 0) EXCEPT
                   !.ret = Some(contains_key(v, l, q)), !.probes = 1]
    /\ UNCHANGED <<v, l, entry, it>>

\* if let Some(r) = self.get_mut(&q) { *r = x }
GetMut(q, x) ==
    /\ Ready
    /\ LET r == get_mut(v, l, q)
       IN /\ v' = IF r = None THEN v ELSE value_write(v, r[1], x)
          /\ last' = [Call("get_mut", q, x) EXCEPT
                         !.ret = IF r = None THEN None ELSE Some(v[r[1] + 1][2]),
                         !.probes = 1]
    /\ UNCHANGED <<l, entry, it>>

\* &self[&q]: self.get(key).expect("no entry found for key")
Index(q) ==
    /\ Ready
    /\ LET r == index(v, l, q)
       IN last' = [Call("index", q, 0) EXCEPT
                      !.ret = r.ret, !.probes = 1, !.panic = r.panic]
    /\ UNCHANGED <<v, l, entry, it>>

\* The maps a caller can build under strategy L from at most MaxInput pairs:
\* let mut b = FlatMap::with_lookup(L); b.extend(iter)
Built == [L \in Strategies |-> {extend(<<>>, L, iter) : iter \in Inputs}]

\* self.append(&mut b), for a map b built as above
AppendOther(b) ==
    /\ Ready
    /\ LET r == append(v, l, b)
       IN /\ v' = r.v
          /\ last' = [Call("append", 0, 0) EXCEPT
                         !.preOther = b, !.other = r.other, !.probes = r.probes]
    /\ UNCHANGED <<l, entry, it>>

\* let b = self.split_off(&k)
SplitOff(k) ==
    /\ Ready
    /\ LET r == split_off(v, l, k)
       IN /\ v' = r.v
          /\ last' = [Call("split_off", k, 0) EXCEPT !.other = r.ret, !.probes = r.probes]
    /\ UNCHANGED <<l, entry, it>>

\* self.clear()
Clear ==
    /\ Ready
    /\ v' = clear(v)
    /\ last' = Call("clear", 0, 0)
    /\ UNCHANGED <<l, entry, it>>

\* let e = self.entry(k): the handle borrows the map until it is consumed
EntryOf(k) ==
    /\ Ready
    /\ LET r == entry_of(v, l, k)
       IN /\ entry' = r.e
          /\ last' = [Call("entry", k, 0) EXCEPT !.probes = r.probes]
    /\ UNCHANGED <<v, l, it>>

\* e.or_insert(d); last.pre, last.k and last.probes carry on from entry(k)
OrInsert(d) ==
    /\ entry # NoEntry
    /\ LET r == or_insert(v, entry, d)
       IN /\ v' = r.v
          /\ last' = [last EXCEPT !.op = "or_insert", !.val = d,
                         !.ret = Some(r.v[r.slot + 1][2]),
                         !.probes = @ + r.probes]
    /\ entry' = NoEntry
    /\ UNCHANGED <<l, it>>

\* e.or_insert_with(|| x)
OrInsertWith(x) ==
    /\ entry # NoEntry
    /\ LET w == or_insert_with(v, entry, x)
       IN /\ v' = w.r.v
          /\ last' = [last EXCEPT !.op = "or_insert_with", !.val = x,
                         !.ret = Some(w.r.v[w.r.slot + 1][2]),
                         !.probes = @ + w.r.probes, !.calls = w.calls]
    /\ entry' = NoEntry
    /\ UNCHANGED <<l, it>>

\* match e { Vacant(e) => e.insert(x) }
VacantInsert(x) ==
    /\ entry.kind = "Vacant"
    /\ LET r == VacantEntry_insert(v, entry, x)
       IN /\ v' = r.v
          /\ last' = [last EXCEPT !.op = "vacant.insert", !.val = x,
                         !.ret = Some(r.v[r.slot + 1][2]),
                         !.probes = @ + r.probes]
    /\ entry' = NoEntry
    /\ UNCHANGED <<l, it>>

\* match e { Occupied(mut e) => e.insert(x) }, then the handle is dropped
OccupiedInsert(x) ==
    /\ entry.kind = "Occupied"
    /\ LET r == OccupiedEntry_insert(v, entry, x)
       IN /\ v' = r.v
          /\ last' = [last EXCEPT !.op = "occupied.insert", !.val = x,
                         !.ret = Some(r.ret), !.probes = @ + r.probes]
    /\ entry' = NoEntry
    /\ UNCHANGED <<l, it>>

\* match e { Occupied(e) => e.remove() }
OccupiedRemove ==
    /\ entry.kind = "Occupied"
    /\ LET r == OccupiedEntry_remove(v, entry)
       IN /\ v' = r.v
          /\ last' = [last EXCEPT !.op = "occupied.remove",
                         !.ret = Some(r.ret), !.probes = @ + r.probes]
    /\ entry' = NoEntry
    /\ UNCHANGED <<l, it>>

\* match e { Occupied(e) => (e.key(), e.get()) }, then the handle is dropped
OccupiedGet ==
    /\ entry.kind = "Occupied"
    /\ last' = [last EXCEPT !.op = "occupied.get",
                   !.ret = Some(<<OccupiedEntry_key(v, entry), OccupiedEntry_get(v, entry)>>)]
    /\ entry' = NoEntry
    /\ UNCHANGED <<v, l, it>>

\* match e { Occupied(mut e) => *e.get_mut() = x } or *e.into_mut() = x
OccupiedWrite(via, x) ==
    /\ entry.kind = "Occupied"
    /\ LET r == IF via = "get_mut" THEN OccupiedEntry_get_mut(v, entry)
                ELSE OccupiedEntry_into_mut(v, entry)
       IN /\ v' = value_write(r.v, r.slot, x)
          /\ last' = [last EXCEPT
                         !.op = IF via = "get_mut" THEN "occupied.get_mut"
                                ELSE "occupied.into_mut",
                         !.val = x, !.ret = Some(r.v[r.slot + 1][2]),
                         !.probes = @ + r.probes]
    /\ entry' = NoEntry
    /\ UNCHANGED <<l, it>>

\* A loop over self.iter_mut() or self.values_mut() that writes w[i] into
\* the i-th value
IterMutWrite(kind, w) ==
    /\ Ready
    /\ v' = iter_mut_write(new_iter(kind, v), v, w)
    /\ last' = Call(IF kind = "IterMut" THEN "iter_mut" ELSE "values_mut", 0, 0)
    /\ UNCHANGED <<l, entry, it>>

\* let it = self.iter() (iter_mut(), keys(), ...); into_iter() is called on
\* self.clone(), so the map stays
NewIter(kind) ==
    /\ Ready
    /\ it' = new_iter(kind, v)
    /\ last' = Call(kind, 0, 0)
    /\ UNCHANGED <<v, l, entry>>

\* it.next(): last.fwd collects what the front yields; last.ended says that a
\* call returned None, last.revived that a later call returned an item
IterNext ==
    /\ it # NoIter
    /\ LET r == next(it)
       IN /\ it' = r.c
          /\ last' = [last EXCEPT
                         !.ret = r.item,
                         !.fwd = IF r.item = None THEN @ ELSE @ \o r.item,
                         !.ended = @ \/ r.item = None,
                         !.revived = @ \/ (last.ended /\ r.item # None)]
    /\ UNCHANGED <<v, l, entry>>

\* it.next_back(): last.bwd collects what the back yields
IterNextBack ==
    /\ it # NoIter
    /\ LET r == next_back(it)
       IN /\ it' = r.c
          /\ last' = [last EXCEPT
                         !.ret = r.item,
                         !.bwd = IF r.item = None THEN @ ELSE @ \o r.item,
                         !.ended = @ \/ r.item = None,
                         !.revived = @ \/ (last.ended /\ r.item # None)]
    /\ UNCHANGED <<v, l, entry>>

\* The caller drops what the last call returned (value, reference or map)
DropResult ==
    /\ entry = NoEntry
    /\ last.op # "idle"
    /\ last' = NoCall
    /\ it' = NoIter
    /\ UNCHANGED <<v, l, entry>>

Next ==
    \/ \E k \in Keys, x \in Vals : Insert(k, x)
    \/ \E q \in Keys : Remove(q)
    \/ \E q \in Keys : Get(q)
    \/ \E q \in Keys : ContainsKey(q)
    \/ \E q \in Keys, x \in Vals : GetMut(q, x)
    \/ \E q \in Keys : Index(q)
    \/ \E b \in Built[l] : AppendOther(b)
    \/ \E k \in Keys : SplitOff(k)
    \/ Clear
    \/ \E k \in Keys : EntryOf(k)
    \/ \E d \in Vals : OrInsert(d)
    \/ \E x \in Vals : OrInsertWith(x)
    \/ \E x \in Vals : VacantInsert(x)
    \/ \E x \in Vals : OccupiedInsert(x)
    \/ OccupiedRemove
    \/ OccupiedGet
    \/ \E via \in {"get_mut", "into_mut"}, x \in Vals : OccupiedWrite(via, x)
    \/ \E kind \in {"IterMut", "ValuesMut"}, w \in [1..Len(v) -> Vals] : IterMutWrite(kind, w)
    \/ \E kind \in IterKinds : NewIter(kind)
    \/ IterNext
    \/ IterNextBack
    \/ DropResult

Spec == Init /\ [][Next]_vars

\* ---- vocabulary of the properties -----------------------------------------
\* The pairs and the keys held by a vector
PairsOf(m) == {m[i] : i \in 1..Len(m)}
KeysOf(m) == {m[i][1] : i \in 1..Len(m)}
\* The value a vector stores for a key it holds
ValueOf(m, k) == (CHOOSE p \in PairsOf(m) : p[1] = k)[2]
\* I1: strictly ascending by key (sorted, no duplicate key)
StrictlyAscending(m) == \A i \in 1..(Len(m) - 1) : m[i][1] < m[i + 1][1]
\* The number of keys of a vector that are smaller than q
CountLess(m, q) == Cardinality({i \in 1..Len(m) : m[i][1] < q})
\* Query keys: every key, one below the smallest and one above the largest
Queries == 0..(MaxKey + 1)
\* The sub-vector of the pairs whose key is not k, in order
Without(m, k) == SelectSeq(m, LAMBDA p : p[1] # k)

\* ---- C1 -------------------------------------------------------------------
\* C1 (invariant I1): after every step of any sequence of insert, remove,
\* entry operations, append, split_off and clear, from an empty map or one
\* built by from_iter, under each of the three strategies, the backing vector
\* is strictly ascending by key; so are the second maps the calls produce.
I1 ==
    /\ StrictlyAscending(v)
    /\ StrictlyAscending(last.other)
    /\ StrictlyAscending(last.preOther)

\* A full map reached by an append that merged two non-empty maps
I1_Witness ==
    /\ last.op = "append"
    /\ last.pre # <<>>
    /\ Len(last.preOther) >= 2
    /\ Len(v) = MaxKey

\* ---- C2 -------------------------------------------------------------------
\* What a search must return: Ok(i) where key i equals q, else Err(number of
\* smaller keys)
Expected(m, q) ==
    IF q \in KeysOf(m)
    THEN Ok((CHOOSE i \in 1..Len(m) : m[i][1] = q) - 1)
    ELSE Err(CountLess(m, q))

\* C2 (strategy equivalence): on every strictly ascending vector a map can
\* be called with and every query key, the three strategies return the same
\* result, Ok(i) exactly where key i equals the query and otherwise
\* Err(insertion point).
StrategyEquivalence ==
    Ready =>
        \A q \in Queries :
            /\ BinarySearch_lookup(v, q) = Expected(v, q)
            /\ LinearFront_lookup(v, q) = Expected(v, q)
            /\ LinearBack_lookup(v, q) = Expected(v, q)

\* A vector with a gap: an absent query strictly between two present keys
StrategyEquivalence_Witness ==
    /\ Ready
    /\ Len(v) >= 2
    /\ \E q \in Keys : q \notin KeysOf(v) /\ v[1][1] < q /\ q < v[Len(v)][1]

\* ---- C3 -------------------------------------------------------------------
\* C3 (insert contract): insert(k, x) returns the previous value iff k was
\* present, then the length is unchanged and only k's value is replaced;
\* otherwise it returns None, the length grows by one and every earlier pair
\* is kept.
InsertContract ==
    last.op = "insert" =>
        LET k == last.k
            x == last.val
            was == k \in KeysOf(last.pre)
        IN /\ (last.ret # None) <=> was
           /\ was =>
                /\ last.ret = Some(ValueOf(last.pre, k))
                /\ Len(v) = Len(last.pre)
                /\ \A i \in 1..Len(v) :
                      v[i] = IF last.pre[i][1] = k THEN <<k, x>> ELSE last.pre[i]
           /\ ~was =>
                /\ last.ret = None
                /\ Len(v) = Len(last.pre) + 1
                /\ PairsOf(v) = PairsOf(last.pre) \cup {<<k, x>>}
                /\ Without(v, k) = last.pre

\* An insert that replaced a different value in a map of several pairs
InsertContract_Witness ==
    /\ last.op = "insert"
    /\ last.ret # None
    /\ last.ret # Some(last.val)
    /\ Len(v) >= 2

\* ---- C4 -------------------------------------------------------------------
\* C4 (lookup contract): for every query q, get, get_mut and remove return
\* None and contains_key returns false iff q is not a key of the map; when q
\* is present they all yield the value stored for q.  Stated of the calls
\* that can be made in a state and of the call that was made.
LookupContract ==
    /\ Ready =>
        \A q \in Queries :
            LET present == q \in KeysOf(v)
                g == get(v, l, q)
                gm == get_mut(v, l, q)
                rm == remove(v, l, q).ret
            IN /\ (g = None) <=> ~present
               /\ (gm = None) <=> ~present
               /\ (rm = None) <=> ~present
               /\ contains_key(v, l, q) <=> present
               /\ present =>
                    /\ g = Some(ValueOf(v, q))
                    /\ rm = g
                    /\ v[gm[1] + 1] = <<q, ValueOf(v, q)>>
    /\ last.op \in {"get", "get_mut", "remove"} =>
        /\ (last.ret = None) <=> last.k \notin KeysOf(last.pre)
        /\ last.k \in KeysOf(last.pre) => last.ret = Some(ValueOf(last.pre, last.k))
    /\ last.op = "contains_key" =>
        last.ret = Some(last.k \in KeysOf(last.pre))

\* A get that found the last key of a map holding different values
LookupContract_Witness ==
    /\ last.op = "get"
    /\ last.ret # None
    /\ Len(v) >= 2
    /\ last.k = v[Len(v)][1]
    /\ v[1][2] # v[Len(v)][2]

\* ---- C5 -------------------------------------------------------------------
\* C5 (split_off split point): whether or not k is a key of the map,
\* split_off(k) returns exactly the pairs with key >= k and the map keeps
\* exactly the pairs with key < k.
SplitOffPoint ==
    last.op = "split_off" =>
        /\ last.other = SelectSeq(last.pre, LAMBDA p : p[1] >= last.k)
        /\ v = SelectSeq(last.pre, LAMBDA p : p[1] < last.k)

\* ---- C6 -------------------------------------------------------------------
\* C6 (split_off partition): after split_off(k) the retained prefix followed
\* by the returned suffix is the original vector, every prefix key is smaller
\* than every suffix key, and both maps satisfy I1.
SplitOffPartition ==
    last.op = "split_off" =>
        /\ v \o last.other = last.pre
        /\ \A i \in 1..Len(v) : \A j \in 1..Len(last.other) : v[i][1] < last.other[j][1]
        /\ StrictlyAscending(v)
        /\ StrictlyAscending(last.other)

\* A split that left pairs on both sides
SplitOffPartition_Witness ==
    /\ last.op = "split_off"
    /\ v # <<>>
    /\ Len(last.other) >= 2

\* ---- C7 -------------------------------------------------------------------
\* C7 (removing an absent key): remove(q) of a q that is not a key returns
\* None and leaves the same pairs in the same order.
RemoveAbsent ==
    (last.op = "remove" /\ last.k \notin KeysOf(last.pre)) =>
        /\ last.ret = None
        /\ Len(v) = Len(last.pre)
        /\ v = last.pre

\* A remove of an absent key that lies between two present keys
RemoveAbsent_Witness ==
    /\ last.op = "remove"
    /\ last.k \notin KeysOf(last.pre)
    /\ Len(last.pre) >= 2
    /\ last.pre[1][1] < last.k
    /\ last.k < last.pre[Len(last.pre)][1]

\* ---- C8 -------------------------------------------------------------------
\* C8 (removing a present key): remove(q) of a present q returns its value,
\* the length drops by one, q is absent afterwards and all other pairs stay,
\* values and relative order unchanged.
RemovePresent ==
    (last.op = "remove" /\ last.k \in KeysOf(last.pre)) =>
        /\ last.ret = Some(ValueOf(last.pre, last.k))
        /\ Len(v) = Len(last.pre) - 1
        /\ last.k \notin KeysOf(v)
        /\ v = Without(last.pre, last.k)

\* A remove that took the first of three pairs
RemovePresent_Witness ==
    /\ last.op = "remove"
    /\ last.ret # None
    /\ Len(last.pre) >= 3
    /\ last.k = last.pre[1][1]
    /\ Len(v) = Len(last.pre) - 1

\* ---- C9 -------------------------------------------------------------------
\* C9 (single-probe entry): entry(k) calls the strategy exactly once;
\* entry(k).or_insert(d) makes no further lookup, on an absent k inserts
\* exactly the pair (k, d) (length + 1, get(k) = d, I1 holds, the other pairs
\* stay), and on a present k leaves the map unchanged and resolves to the
\* existing value.
SingleProbeEntry ==
    /\ last.op = "entry" => last.probes = 1
    /\ last.op = "or_insert" =>
        LET k == last.k
            d == last.val
        IN /\ last.probes = 1
           /\ k \notin KeysOf(last.pre) =>
                /\ Len(v) = Len(last.pre) + 1
                /\ get(v, l, k) = Some(d)
                /\ last.ret = Some(d)
                /\ StrictlyAscending(v)
                /\ Without(v, k) = last.pre
           /\ k \in KeysOf(last.pre) =>
                /\ v = last.pre
                /\ last.ret = Some(ValueOf(last.pre, k))

\* An or_insert that put an absent key between two present ones
SingleProbeEntry_Witness ==
    /\ last.op = "or_insert"
    /\ last.k \notin KeysOf(last.pre)
    /\ Len(v) >= 3
    /\ v[1][1] < last.k
    /\ last.k < v[Len(v)][1]

\* ---- C10 ------------------------------------------------------------------
\* C10 (or_insert_with laziness): the producer is invoked exactly once when k
\* is absent, and its result becomes k's value; it is not invoked when k is
\* present; it is never invoked more than once.
OrInsertWithLazy ==
    last.op = "or_insert_with" =>
        /\ last.calls <= 1
        /\ last.k \notin KeysOf(last.pre) =>
             /\ last.calls = 1
             /\ get(v, l, last.k) = Some(last.val)
        /\ last.k \in KeysOf(last.pre) =>
             /\ last.calls = 0
             /\ v = last.pre

\* An or_insert_with on a present key whose producer would give another value
OrInsertWithLazy_Witness ==
    /\ last.op = "or_insert_with"
    /\ last.k \in KeysOf(last.pre)
    /\ last.val # ValueOf(last.pre, last.k)
    /\ last.ret = Some(ValueOf(last.pre, last.k))

\* ---- C11 ------------------------------------------------------------------
\* C11 (append merge): after a.append(b), for maps a and b satisfying I1, b
\* is empty, a's keys are the union of both key sets, every key of b maps to
\* b's value, every key only in a keeps a's value, and a satisfies I1.
AppendMerge ==
    last.op = "append" =>
        /\ last.other = <<>>
        /\ KeysOf(v) = KeysOf(last.pre) \cup KeysOf(last.preOther)
        /\ \A k \in KeysOf(last.preOther) : ValueOf(v, k) = ValueOf(last.preOther, k)
        /\ \A k \in KeysOf(last.pre) \ KeysOf(last.preOther) :
              ValueOf(v, k) = ValueOf(last.pre, k)
        /\ Len(v) = Cardinality(KeysOf(v))
        /\ StrictlyAscending(v)

\* An append with a key in both maps (different values), one only in a and
\* one only in b
AppendMerge_Witness ==
    /\ last.op = "append"
    /\ \E k \in KeysOf(last.pre) \cap KeysOf(last.preOther) :
          ValueOf(last.pre, k) # ValueOf(last.preOther, k)
    /\ KeysOf(last.pre) \ KeysOf(last.preOther) # {}
    /\ KeysOf(last.preOther) \ KeysOf(last.pre) # {}

\* ---- C12 ------------------------------------------------------------------
\* The index of the first pair of an input that has key k
FirstAt(input, k) == CHOOSE i \in 1..Len(input) :
    /\ input[i][1] = k
    /\ \A j \in 1..(i - 1) : input[j][1] # k

\* C12 (bulk construction): from_iter of any input yields a map satisfying
\* I1 whose keys are the keys of the input, one entry per key, each with the
\* value of the first pair of the input that has the key.
BulkConstruction ==
    last.op = "from_iter" =>
        /\ StrictlyAscending(v)
        /\ KeysOf(v) = KeysOf(last.input)
        /\ Len(v) = Cardinality(KeysOf(last.input))
        /\ \A k \in KeysOf(last.input) :
              ValueOf(v, k) = last.input[FirstAt(last.input, k)][2]

\* An input that repeats a key with another value
BulkConstruction_Witness ==
    /\ last.op = "from_iter"
    /\ \E i, j \in 1..Len(last.input) :
          /\ i < j
          /\ last.input[i][1] = last.input[j][1]
          /\ last.input[i][2] # last.input[j][2]

\* ---- C13 ------------------------------------------------------------------
\* C13 (indexing by key): map[q] returns what get(q) returns when q is
\* present; when q is absent it returns nothing and aborts with "no entry
\* found for key"; the pairs of the map are unchanged either way.
IndexByKey ==
    last.op = "index" =>
        /\ last.k \in KeysOf(last.pre) =>
             /\ last.ret = get(last.pre, l, last.k)
             /\ last.ret = Some(ValueOf(last.pre, last.k))
             /\ last.panic = "none"
        /\ last.k \notin KeysOf(last.pre) =>
             /\ last.ret = None
             /\ last.panic = "no entry found for key"
        /\ v = last.pre

\* Indexing a non-empty map by a key it does not hold
IndexByKey_Witness ==
    /\ last.op = "index"
    /\ last.k \notin KeysOf(v)
    /\ v # <<>>
    /\ last.panic = "no entry found for key"

\* ---- C14 ------------------------------------------------------------------
\* What an iterator of a kind yields for each pair of a vector, in order
Proj(kind, m) == [i \in 1..Len(m) |-> project(kind, m[i])]
\* A sequence backwards
Reverse(q) == [i \in 1..Len(q) |-> q[Len(q) + 1 - i]]

\* C14 (iteration order): an iterator run to its end from the front only
\* has yielded every pair of the map once, in strictly ascending key order
\* (for keys / values: the projection of that sequence); run from the back
\* only it has yielded exactly the reverse.
IterationOrder ==
    (it # NoIter /\ last.ended) =>
        /\ StrictlyAscending(v)
        /\ last.bwd = <<>> => last.fwd = Proj(it.kind, v)
        /\ last.fwd = <<>> => last.bwd = Reverse(Proj(it.kind, v))

\* A backward iteration over three pairs, run to its end
IterationOrder_Witness ==
    /\ it.kind = "Iter"
    /\ last.ended
    /\ last.fwd = <<>>
    /\ Len(last.bwd) >= 3
    /\ last.bwd[1][1] > last.bwd[Len(last.bwd)][1]

\* ---- C18 ------------------------------------------------------------------
\* C18 (iterators are finite and exact): under any interleaving of next and
\* next_back the front has yielded a prefix and the back the reverse of a
\* disjoint suffix of the n items, the cursors have not crossed, size_hint is
\* the number of items still to come, a call returns None only when all n
\* items are out, and no call returns an item after one returned None.
IteratorsExact ==
    it # NoIter =>
        LET n == Len(it.s)
            all == Proj(it.kind, it.s)
            nf == Len(last.fwd)
            nb == Len(last.bwd)
        IN /\ it.front <= it.back
           /\ nf + nb <= n
           /\ last.fwd = SubSeq(all, 1, nf)
           /\ last.bwd = Reverse(SubSeq(all, n - nb + 1, n))
           /\ size_hint(it) = n - nf - nb
           /\ last.ended => nf + nb = n
           /\ ~last.revived

\* An exhausted iterator over three pairs that was taken from both ends
IteratorsExact_Witness ==
    /\ it.kind = "IntoIter"
    /\ last.ended
    /\ Len(it.s) >= 3
    /\ Len(last.fwd) >= 1
    /\ Len(last.bwd) >= 1

\* ---- C15 ------------------------------------------------------------------
\* The pairs of a set, ascending by key
RECURSIVE Canon(_)
Canon(S) ==
    IF S = {} THEN <<>>
    ELSE LET p == CHOOSE p \in S : \A q \in S : p[1] <= q[1]
         IN <<p>> \o Canon(S \ {p})

\* C15 (canonical order): the backing vector is a function of the
\* key-to-value associations alone: it is their ascending arrangement,
\* whatever operations and strategy led to it; so a map built by inserting
\* the same associations in any order, under any strategy, is the same
\* vector, compares equal and feeds the hasher the same elements in order.
CanonicalOrder ==
    /\ v = Canon(PairsOf(v))
    /\ eq(v, Canon(PairsOf(v)))
    /\ hash(v) = hash(Canon(PairsOf(v)))
    /\ Ready =>
        \A L \in Strategies : \A b \in Built[L] :
            PairsOf(b) = PairsOf(v) =>
                /\ b = v
                /\ eq(v, b) /\ eq(b, v)
                /\ hash(v) = hash(b)

\* A full map whose last insert went in front of the keys inserted before
CanonicalOrder_Witness ==
    /\ last.op = "insert"
    /\ last.ret = None
    /\ Len(v) >= 3
    /\ last.k = v[1][1]

\* ---- C16 ------------------------------------------------------------------
\* C16 (mutable views cannot reorder keys): a mutation through iter_mut,
\* values_mut, get_mut or OccupiedEntry::get_mut / into_mut changes values
\* only: the keys, their order and the length stay, and I1 holds.
MutableViews ==
    last.op \in {"iter_mut", "values_mut", "get_mut", "occupied.get_mut",
                 "occupied.into_mut"} =>
        /\ Len(v) = Len(last.pre)
        /\ \A i \in 1..Len(v) : v[i][1] = last.pre[i][1]
        /\ StrictlyAscending(v)

\* A loop over values_mut that changed every value of a map of several pairs
MutableViews_Witness ==
    /\ last.op = "values_mut"
    /\ Len(v) >= 2
    /\ \A i \in 1..Len(v) : v[i][2] # last.pre[i][2]

\* ---- C17 ------------------------------------------------------------------
\* C17 (occupied entry operations match the direct ones): for a present key
\* k, entry(k) is Occupied with key() = k and get() = get(k);
\* Occupied.insert(x) returns what insert(k, x) returns and leaves the map
\* insert(k, x) leaves; Occupied.remove() likewise matches remove(k).
OccupiedMatchesDirect ==
    /\ (last.op = "entry" /\ last.k \in KeysOf(v)) =>
        /\ entry.kind = "Occupied"
        /\ OccupiedEntry_key(v, entry) = last.k
        /\ Some(OccupiedEntry_get(v, entry)) = get(v, l, last.k)
    /\ last.op = "occupied.get" =>
        /\ last.ret = Some(<<last.k, ValueOf(last.pre, last.k)>>)
        /\ v = last.pre
    /\ last.op = "occupied.insert" =>
        /\ v = insert(last.pre, l, last.k, last.val).v
        /\ last.ret = insert(last.pre, l, last.k, last.val).ret
        /\ last.ret = Some(ValueOf(last.pre, last.k))
    /\ last.op = "occupied.remove" =>
        /\ v = remove(last.pre, l, last.k).v
        /\ last.ret = remove(last.pre, l, last.k).ret
        /\ last.ret = Some(ValueOf(last.pre, last.k))

\* An Occupied.insert that replaced the middle value of three by another
OccupiedMatchesDirect_Witness ==
    /\ last.op = "occupied.insert"
    /\ Len(v) >= 3
    /\ last.k = v[2][1]
    /\ last.ret # Some(last.val)

\* ---- C19 ------------------------------------------------------------------
\* The abstract map a vector stands for: key to Some(value) or None
Abs(m) == [k \in Keys |-> IF k \in KeysOf(m) THEN Some(ValueOf(m, k)) ELSE None]

\* C19 (refinement of an abstract finite map): insert(k, x), remove(k) and
\* clear act on the abstract map as assignment of x to k, deletion of k and
\* emptying; get(k) returns the abstract map's value of k, len() is the
\* number of its keys and is_empty() holds exactly when len() is 0.
RefinesAbstractMap ==
    /\ last.op = "insert" => Abs(v) = [Abs(last.pre) EXCEPT ![last.k] = Some(last.val)]
    /\ last.op = "remove" => Abs(v) = [Abs(last.pre) EXCEPT ![last.k] = None]
    /\ last.op = "clear" => Abs(v) = [k \in Keys |-> None]
    /\ last.op = "get" => last.ret = Abs(last.pre)[last.k]
    /\ \A k \in Keys : get(v, l, k) = Abs(v)[k]
    /\ len(v) = Cardinality({k \in Keys : Abs(v)[k] # None})
    /\ is_empty(v) <=> len(v) = 0

\* A clear of a map of several pairs
RefinesAbstractMap_Witness ==
    /\ last.op = "clear"
    /\ Len(last.pre) >= 2
    /\ is_empty(v)

\* ---- C20 ------------------------------------------------------------------
\* C20 (index safety): every index a strategy returns is in bounds for the
\* Vec operation that uses it (Ok(i): i < len for indexing, remove and
\* split_off; Err(i): i <= len for insert), the index held by a Vacant or
\* Occupied entry is in bounds while the handle lives, and nothing but
\* indexing a missing key aborts.
IndexSafety ==
    /\ Ready =>
        \A q \in Queries :
            LET r == lookup(l, v, q)
            IN /\ r.ok => /\ Vec_index_in_bounds(v, r.idx)
                          /\ Vec_remove_in_bounds(v, r.idx)
                          /\ Vec_split_off_in_bounds(v, r.idx)
               /\ ~r.ok => Vec_insert_in_bounds(v, r.idx)
    /\ entry.kind = "Vacant" => Vec_insert_in_bounds(v, entry.index)
    /\ entry.kind = "Occupied" =>
        /\ Vec_index_in_bounds(v, entry.index)
        /\ Vec_remove_in_bounds(v, entry.index)
    /\ last.panic # "none" => (last.op = "index" /\ last.k \notin KeysOf(last.pre))

\* A Vacant handle whose index is the end of a non-empty vector
IndexSafety_Witness ==
    /\ entry.kind = "Vacant"
    /\ v # <<>>
    /\ entry.index = Len(v)

====
